---- MODULE Spec2Model ----

(***************************************************************************)
(* The streaming lexical scanner of QuasiPiler (class reader,              *)
(* src/src/reader.cpp, src/include/reader.hpp) over an in-memory source    *)
(* and over a file read in chunks.                                         *)
(*                                                                         *)
(* Bytes are their ASCII codes.  The window (std::string buffer) is a      *)
(* sequence of bytes, shift is the 0-based index of the next byte.  A      *)
(* reader value  r  is the record of the fields the member functions       *)
(* read and write; every member function is an operator from a reader      *)
(* value to its result, and the public calls next_token and readln are     *)
(* the actions.                                                            *)
(***************************************************************************)
EXTENDS Integers, Sequences, FiniteSets, TLC

(***************************************************************************)
(* Bounds of the model.                                                    *)
(***************************************************************************)
\* longest input over TokAlphabet
MaxLen == 4
\* longest input over MixAlphabet
MaxMixLen == 3
\* longest input over NumAlphabet
MaxNumLen == 5
\* most fragments of StrFragments an input of the string family is made of
MaxFrags == 4
\* largest max_size handed to readln
MaxSize == 2
\* most public calls made on one reader
MaxCalls == 6
\* longest source over SrcAlphabet
MaxSrcLen == 2
\* largest buffer_size a file is opened with
MaxChunk == 2
\* most jump_to calls made on one reader
MaxJumps == 1
\* longest input over KwAlphabet
MaxKwLen == 3
\* longest input over PunctAlphabet
MaxPunctLen == 2

(***************************************************************************)
(* <cctype> in the "C" locale, on ASCII bytes.                             *)
(***************************************************************************)
isdigit(c) == c \in 48..57
isalpha(c) == c \in (65..90) \cup (97..122)
isalnum(c) == isalpha(c) \/ isdigit(c)
isspace(c) == c \in {32, 9, 10, 11, 12, 13}
isxdigit(c) == c \in (48..57) \cup (65..70) \cup (97..102)

\* value of one hexadecimal digit, as std::stoi(hex, nullptr, 16) reads it
HexVal(c) == IF c \in 48..57 THEN c - 48
             ELSE IF c \in 65..70 THEN c - 55
             ELSE c - 87

\* std::stoi(hex, nullptr, 16) on the four collected hex digits
stoi16(hex) ==
    4096 * HexVal(hex[1]) + 256 * HexVal(hex[2]) + 16 * HexVal(hex[3]) + HexVal(hex[4])

\* std::wstring_convert<std::codecvt_utf8<char32_t>, char32_t>::to_bytes
\* of one codepoint below 0x10000: its UTF-8 encoding
to_bytes(cp) ==
    IF cp < 128 THEN <<cp>>
    ELSE IF cp < 2048 THEN <<192 + (cp \div 64), 128 + (cp % 64)>>
    ELSE <<224 + (cp \div 4096), 128 + ((cp \div 64) % 64), 128 + (cp % 64)>>

(***************************************************************************)
(* std::ifstream as the reader uses it.  A stream is the record of the     *)
(* file's bytes, the get position, eofbit and failbit; exceptions() keeps  *)
(* its default, so no stream operation throws.                             *)
(***************************************************************************)
\* the default-constructed ifs of a reader built from a string
NoStream ==
    [open |-> FALSE, file |-> <<>>, pos |-> 0, eof |-> FALSE, fail |-> FALSE]

\* ifs.open(path, std::ios::binary) on an existing file holding  file
open(file) ==
    [open |-> TRUE, file |-> file, pos |-> 0, eof |-> FALSE, fail |-> FALSE]

good(s) == ~s.eof /\ ~s.fail

\* ifs.seekg(p): clears eofbit, then sets the position unless fail()
seekg(s, p) ==
    LET s1 == [s EXCEPT !.eof = FALSE]
    IN  IF s1.fail THEN s1 ELSE [s1 EXCEPT !.pos = p]

\* ifs.tellg(): the position, -1 when the stream is not good
tellg(s) == IF good(s) THEN s.pos ELSE -1

\* a read of n bytes by a good stream that gets k of them (none when the
\* position is at or beyond the end of the file)
read_some(s, n, k) ==
    IF k <= 0 THEN [s |-> [s EXCEPT !.eof = 0 < n, !.fail = 0 < n], bytes |-> <<>>]
    ELSE [s |-> [s EXCEPT !.pos = @ + k, !.eof = k < n, !.fail = k < n],
          bytes |-> SubSeq(s.file, s.pos + 1, s.pos + k)]

\* ifs.read(dst, n): s is the stream afterwards, bytes what was stored at
\* dst (gcount() is their number).  A stream that is not good reads
\* nothing; a read that meets the end of the file sets eofbit and failbit.
read(s, n) ==
    IF ~good(s) THEN [s |-> [s EXCEPT !.fail = TRUE], bytes |-> <<>>]
    ELSE read_some(s, n, IF Len(s.file) - s.pos < n THEN Len(s.file) - s.pos ELSE n)

(***************************************************************************)
(* The cursor: valid, peek, get, next, refill_buffer.  Besides the fields  *)
(* of the class a reader value carries two observations: unchecked, set    *)
(* when peek() or get() is called although valid() is false, and ub, set   *)
(* when ifs.read has stored bytes beyond the size() of the window.         *)
(***************************************************************************)
\* reader::reader(std::string&): the fields after construction.  line and
\* col keep their default -1 when the buffer is empty.
reader(str) ==
    [buffer |-> str, shift |-> 0,
     line |-> IF str # <<>> THEN 0 ELSE -1,
     col |-> IF str # <<>> THEN 0 ELSE -1,
     ifs |-> NoStream, max_buffer_size |-> 0, offset |-> -1,
     unchecked |-> FALSE, ub |-> FALSE]

valid(r) == r.buffer # <<>> /\ r.shift < Len(r.buffer)

\* buffer[shift]: std::string::operator[] yields the terminating NUL at
\* shift = size(); an index beyond that is outside the string, and what is
\* read there is not defined: OutOfString stands for it.
OutOfString == -1
peek(r) ==
    IF r.shift < Len(r.buffer) THEN r.buffer[r.shift + 1]
    ELSE IF r.shift = Len(r.buffer) THEN 0
    ELSE OutOfString

\* the reader after a call of peek() or get(): both require valid()
peeked(r) == [r EXCEPT !.unchecked = @ \/ ~valid(r)]

\* the window after ifs.read(buffer.data(), max) has got  bytes  and the
\* resize that follows a short read.  ifs.read stores the bytes at
\* buffer.data() whatever size() is: the bytes within size() replace the
\* window's, the others are a write outside the string; resize() cuts the
\* window or pads it with NUL bytes.
refilled(window, bytes, max) ==
    IF Len(bytes) >= max
    THEN [i \in 1..Len(window) |-> IF i <= Len(bytes) THEN bytes[i] ELSE window[i]]
    ELSE [i \in 1..Len(bytes) |-> IF i <= Len(window) THEN bytes[i] ELSE 0]

\* the reader after the read of lines 156-160, rd being what ifs.read did
refill_with(r, rd) ==
    [r EXCEPT !.offset = tellg(r.ifs),
              !.ifs = rd.s,
              !.buffer = refilled(@, rd.bytes, r.max_buffer_size),
              !.shift = 0,
              !.ub = @ \/ Len(rd.bytes) > Len(r.buffer)]

refill_buffer(r) ==
    IF ~r.ifs.open \/ r.ifs.eof THEN r
    ELSE refill_with(r, read(r.ifs, r.max_buffer_size))

\* reader::reader(path, buffer_size) on a file that opens: the window is
\* the empty string when refill_buffer is called
reader_path(file, buffer_size) ==
    LET s == seekg(open(file), 0)
    IN  refill_buffer([buffer |-> <<>>, shift |-> 0, line |-> -1, col |-> -1,
                       ifs |-> s, max_buffer_size |-> buffer_size,
                       offset |-> tellg(s),
                       unchecked |-> FALSE, ub |-> FALSE])

next(r) ==
    LET r1 == [r EXCEPT !.shift = @ + 1, !.col = @ + 1]
    IN  IF r1.shift >= Len(r1.buffer) THEN refill_buffer(r1) ELSE r1

\* get(): c is the byte returned, r the reader it leaves behind
get(r) == [c |-> peek(r), r |-> next(peeked(r))]

(***************************************************************************)
(* read_whitespace, read_keyword.  A scan result is [r, s]: the reader     *)
(* after the scan and the text accumulated in the out-parameter.           *)
(***************************************************************************)
RECURSIVE ws_loop_col0(_, _)
\* read_whitespace resetting col to 0, not -1, at a newline
ws_loop_col0(r, word) ==
    IF valid(r) /\ isspace(peek(r))
    THEN LET r1 == IF peek(r) = 10
                   THEN [r EXCEPT !.line = @ + 1, !.col = 0]
                   ELSE r
         IN  ws_loop_col0(get(r1).r, Append(word, get(r1).c))
    ELSE [r |-> r, s |-> word]

read_whitespace_col0(r) == ws_loop_col0(r, <<>>)

RECURSIVE ws_loop(_, _)
ws_loop(r, word) ==
    IF valid(r) /\ isspace(peek(r))
    THEN LET r1 == IF peek(r) = 10
                   THEN [r EXCEPT !.line = @ + 1, !.col = -1]
                   ELSE r
         IN  ws_loop(get(r1).r, Append(word, get(r1).c))
    ELSE [r |-> r, s |-> word]

\* read_whitespace with an  if  in the place of the  while  of line 164:
\* one whitespace byte is read
read_whitespace_once(r) ==
    IF valid(r) /\ isspace(peek(r))
    THEN LET r1 == IF peek(r) = 10
                   THEN [r EXCEPT !.line = @ + 1, !.col = -1]
                   ELSE r
         IN  [r |-> get(r1).r, s |-> <<get(r1).c>>]
    ELSE [r |-> r, s |-> <<>>]

read_whitespace(r) == ws_loop(r, <<>>)

RECURSIVE kw_loop(_, _)
kw_loop(r, word) ==
    LET r1 == get(r).r
        w1 == Append(word, get(r).c)
    IN  IF valid(r1) /\ (isalnum(peek(r1)) \/ peek(r1) = 95)
        THEN kw_loop(r1, w1)
        ELSE [r |-> r1, s |-> w1]

RECURSIVE kw_loop_letters(_, _)
\* read_keyword going on over letters and '_' only: a digit ends the word
kw_loop_letters(r, word) ==
    LET r1 == get(r).r
        w1 == Append(word, get(r).c)
    IN  IF valid(r1) /\ (isalpha(peek(r1)) \/ peek(r1) = 95)
        THEN kw_loop_letters(r1, w1)
        ELSE [r |-> r1, s |-> w1]

read_keyword_letters(r) == kw_loop_letters(r, <<>>)

read_keyword(r) == kw_loop(r, <<>>)

(***************************************************************************)
(* read_number.  A result is [r, s, err, float]; err = "" when no          *)
(* exception was thrown.                                                   *)
(***************************************************************************)
RECURSIVE digits(_, _)
\* while (valid() && std::isdigit(peek())) number += get();
digits(r, number) ==
    IF valid(r) /\ isdigit(peek(r))
    THEN digits(get(r).r, Append(number, get(r).c))
    ELSE [r |-> r, s |-> number]

\* read_number without the leading-zero test of lines 36-40
int_part_any_digits(r) ==
    IF valid(r) /\ peek(r) = 48
    THEN LET r1 == get(r).r
         IN  [r |-> r1, s |-> <<48>>, float |-> FALSE, err |-> ""]
    ELSE IF valid(r) /\ isdigit(peek(r))
    THEN LET d == digits(r, <<>>)
         IN  [r |-> d.r, s |-> d.s, float |-> FALSE, err |-> ""]
    ELSE [r |-> r, s |-> <<>>, float |-> FALSE, err |-> "expected digit"]

\* lines 34-47: the integer part
int_part(r) ==
    IF valid(r) /\ peek(r) = 48
    THEN LET r1 == get(r).r
         IN  [r |-> r1, s |-> <<48>>, float |-> FALSE,
              err |-> IF valid(r1) /\ isdigit(peek(r1))
                      THEN "leading zeros are not allowed" ELSE ""]
    ELSE IF valid(r) /\ isdigit(peek(r))
    THEN LET d == digits(r, <<>>)
         IN  [r |-> d.r, s |-> d.s, float |-> FALSE, err |-> ""]
    ELSE [r |-> r, s |-> <<>>, float |-> FALSE, err |-> "expected digit"]

\* frac_part without the  number +=  of line 50: the '.' is consumed and lost
frac_part_drops_dot(n) ==
    IF n.err = "" /\ valid(n.r) /\ peek(n.r) = 46
    THEN LET r1 == get(n.r).r
         IN  IF ~valid(r1) \/ ~isdigit(peek(r1))
             THEN [r |-> r1, s |-> n.s, float |-> TRUE,
                   err |-> "expected digit after decimal"]
             ELSE LET d == digits(r1, n.s)
                  IN  [r |-> d.r, s |-> d.s, float |-> TRUE, err |-> ""]
    ELSE n

\* lines 48-59: the optional fractional part
frac_part(n) ==
    IF n.err = "" /\ valid(n.r) /\ peek(n.r) = 46
    THEN LET r1 == get(n.r).r
             s1 == Append(n.s, 46)
         IN  IF ~valid(r1) \/ ~isdigit(peek(r1))
             THEN [r |-> r1, s |-> s1, float |-> TRUE,
                   err |-> "expected digit after decimal"]
             ELSE LET d == digits(r1, s1)
                  IN  [r |-> d.r, s |-> d.s, float |-> TRUE, err |-> ""]
    ELSE n

\* the exponent part without  is_float = true  (line 61)
exp_part_keeps_kind(n) ==
    IF n.err = "" /\ valid(n.r) /\ (peek(n.r) = 101 \/ peek(n.r) = 69)
    THEN LET r1 == get(n.r).r
             s1 == Append(n.s, get(n.r).c)
             sign == valid(r1) /\ (peek(r1) = 43 \/ peek(r1) = 45)
             r2 == IF sign THEN get(r1).r ELSE r1
             s2 == IF sign THEN Append(s1, get(r1).c) ELSE s1
         IN  IF ~valid(r2) \/ ~isdigit(peek(r2))
             THEN [r |-> r2, s |-> s2, float |-> n.float,
                   err |-> "expected digit after exponent"]
             ELSE LET d == digits(r2, s2)
                  IN  [r |-> d.r, s |-> d.s, float |-> n.float, err |-> ""]
    ELSE n

\* lines 60-74: the optional exponent part
exp_part(n) ==
    IF n.err = "" /\ valid(n.r) /\ (peek(n.r) = 101 \/ peek(n.r) = 69)
    THEN LET r1 == get(n.r).r
             s1 == Append(n.s, get(n.r).c)
             sign == valid(r1) /\ (peek(r1) = 43 \/ peek(r1) = 45)
             r2 == IF sign THEN get(r1).r ELSE r1
             s2 == IF sign THEN Append(s1, get(r1).c) ELSE s1
         IN  IF ~valid(r2) \/ ~isdigit(peek(r2))
             THEN [r |-> r2, s |-> s2, float |-> TRUE,
                   err |-> "expected digit after exponent"]
             ELSE LET d == digits(r2, s2)
                  IN  [r |-> d.r, s |-> d.s, float |-> TRUE, err |-> ""]
    ELSE n

read_number(r) == exp_part(frac_part(int_part(r)))

(***************************************************************************)
(* read_string.  A result is [r, s, err].                                  *)
(***************************************************************************)
\* the switch of lines 201-225: the character a one-byte escape stands for
Escaped(c) ==
    CASE c = 34 -> 34
      [] c = 92 -> 92
      [] c = 47 -> 47
      [] c = 98 -> 8
      [] c = 102 -> 12
      [] c = 110 -> 10
      [] c = 114 -> 13
      [] c = 116 -> 9

SimpleEscapes == {34, 92, 47, 98, 102, 110, 114, 116}

RECURSIVE hex_loop(_, _, _)
\* lines 228-234: for (int i = 0; i < 4; ++i) { next(); ... hex += peek(); }
hex_loop(r, hex, i) ==
    IF i < 4
    THEN LET r1 == next(r)
         IN  IF ~valid(r1) \/ ~isxdigit(peek(r1))
             THEN [r |-> r1, s |-> hex, err |-> "invalid Unicode escape sequence"]
             ELSE hex_loop(r1, Append(hex, peek(r1)), i + 1)
    ELSE [r |-> r, s |-> hex, err |-> ""]

RECURSIVE str_loop(_, _, _, _)
\* one pass of the do-while of lines 198-253, then the next pass or the exit
str_loop(r0, value, is_backslash, quote) ==
    LET current == peek(r0)
        r == peeked(r0)
        \* line 252 and the loop condition of line 253
        again(r1, v1, b1) ==
            LET r2 == next(r1)
            IN  IF valid(r2) THEN str_loop(r2, v1, b1, quote)
                ELSE [r |-> r2, s |-> v1, err |-> ""]
    IN  IF is_backslash
        THEN IF current \in SimpleEscapes
             THEN again(r, value \o <<Escaped(current)>>, FALSE)
             ELSE IF current = 117
             THEN LET h == hex_loop(r, <<>>, 0)
                  IN  IF h.err # ""
                      THEN [r |-> h.r, s |-> value, err |-> h.err]
                      ELSE again(h.r, value \o to_bytes(stoi16(h.s)), FALSE)
             ELSE [r |-> r, s |-> value, err |-> "invalid escape sequence"]
        ELSE IF current = 92
        THEN again(r, value, TRUE)
        ELSE IF current = quote
        THEN [r |-> r, s |-> value, err |-> ""]
        ELSE again(r, Append(value, current), FALSE)

\* read_string without the test of lines 254-256
read_string_unchecked(r) ==
    LET quote == get(r).c
        l == str_loop(get(r).r, <<>>, FALSE, quote)
    IN  IF l.err # "" THEN l
        ELSE [r |-> next(l.r), s |-> l.s, err |-> ""]

read_string(r) ==
    LET quote == get(r).c
        l == str_loop(get(r).r, <<>>, FALSE, quote)
    IN  IF l.err # "" THEN l
        ELSE IF ~valid(l.r) \/ peek(l.r) # quote
        THEN [r |-> l.r, s |-> l.s, err |-> "missing closing quote"]
        ELSE [r |-> next(l.r), s |-> l.s, err |-> ""]

(***************************************************************************)
(* next_token and readln.  A next_token result is                          *)
(* [r, kind, lexeme, err, line, col]: kind is "none" and err is the        *)
(* message when the call throws; lexeme is the out-parameter as the call   *)
(* leaves it.                                                              *)
(***************************************************************************)
\* the token that starts at the position of r0, with the scan result x
made(r0, k, x) ==
    [r |-> x.r, kind |-> k, lexeme |-> x.s, err |-> "",
     line |-> r0.line, col |-> r0.col]

\* the exception a scan propagates out of next_token
thrown(r0, x) ==
    [r |-> x.r, kind |-> "none", lexeme |-> x.s, err |-> x.err,
     line |-> r0.line, col |-> r0.col]

\* lines 288-305 with ':' left out of the separators of line 294
classify_no_colon(r) ==
    LET c == peek(r)
        same == [r |-> r, s |-> <<>>]
    IN  IF c = 40 \/ c = 91 \/ c = 123 THEN made(r, "open_bracket", same)
        ELSE IF c = 41 \/ c = 93 \/ c = 125 THEN made(r, "close_bracket", same)
        ELSE IF c = 44 \/ c = 59 THEN made(r, "separator", same)
        ELSE IF isalpha(c) \/ c = 95 THEN made(r, "keyword", read_keyword(r))
        ELSE IF isdigit(c)
        THEN LET n == read_number(r)
             IN  IF n.err # "" THEN thrown(r, n)
                 ELSE made(r, IF n.float THEN "floating" ELSE "integer", n)
        ELSE IF c = 39 \/ c = 34
        THEN LET v == read_string(r)
             IN  IF v.err # "" THEN thrown(r, v) ELSE made(r, "string", v)
        ELSE IF isspace(c) THEN made(r, "whitespace", read_whitespace(r))
        ELSE made(r, "special_character", same)

\* lines 288-305: the kind by the byte at the cursor, and the scan
classify(r) ==
    LET c == peek(r)
        same == [r |-> r, s |-> <<>>]
    IN  IF c = 40 \/ c = 91 \/ c = 123 THEN made(r, "open_bracket", same)
        ELSE IF c = 41 \/ c = 93 \/ c = 125 THEN made(r, "close_bracket", same)
        ELSE IF c = 44 \/ c = 59 \/ c = 58 THEN made(r, "separator", same)
        ELSE IF isalpha(c) \/ c = 95 THEN made(r, "keyword", read_keyword(r))
        ELSE IF isdigit(c)
        THEN LET n == read_number(r)
             IN  IF n.err # "" THEN thrown(r, n)
                 ELSE made(r, IF n.float THEN "floating" ELSE "integer", n)
        ELSE IF c = 39 \/ c = 34
        THEN LET v == read_string(r)
             IN  IF v.err # "" THEN thrown(r, v) ELSE made(r, "string", v)
        ELSE IF isspace(c) THEN made(r, "whitespace", read_whitespace(r))
        ELSE made(r, "special_character", same)

\* lines 306-308 with peek() in the place of get(): the byte is not consumed
single_byte_peeks(t) ==
    IF t.err = "" /\ t.lexeme = <<>>
    THEN [t EXCEPT !.lexeme = <<peek(t.r)>>]
    ELSE t

\* lines 306-308: if (lexeme.empty()) lexeme = get();
single_byte(t) ==
    IF t.err = "" /\ t.lexeme = <<>>
    THEN [t EXCEPT !.lexeme = <<get(t.r).c>>, !.r = get(t.r).r]
    ELSE t

\* next_token with the single-byte fallback of lines 306-308 outside the
\* else branch, so that it also runs at end of input
next_token_fills_eof(r) ==
    IF ~valid(r) THEN single_byte(made(r, "eof", [r |-> r, s |-> <<>>]))
    ELSE single_byte(classify(r))

next_token(r) ==
    IF ~valid(r) THEN made(r, "eof", [r |-> r, s |-> <<>>])
    ELSE single_byte(classify(r))

RECURSIVE ln_loop(_, _, _)
\* the while of lines 318-325
ln_loop(r, data, max_size) ==
    IF valid(r) /\ Len(data) < max_size
    THEN LET g == get(r)
         IN  IF g.c = 10
             THEN [r |-> [g.r EXCEPT !.line = @ + 1, !.col = 0],
                   s |-> Append(data, g.c)]
             ELSE ln_loop(g.r, Append(data, g.c), max_size)
    ELSE [r |-> r, s |-> data]

RECURSIVE ln_loop_no_break(_, _, _)
\* readln without the break of line 323
ln_loop_no_break(r, data, max_size) ==
    IF valid(r) /\ Len(data) < max_size
    THEN LET g == get(r)
         IN  IF g.c = 10
             THEN ln_loop_no_break([g.r EXCEPT !.line = @ + 1, !.col = 0],
                                   Append(data, g.c), max_size)
             ELSE ln_loop_no_break(g.r, Append(data, g.c), max_size)
    ELSE [r |-> r, s |-> data]

readln_no_break(r, max_size) ==
    LET l == ln_loop_no_break(r, <<>>, max_size)
    IN  [r |-> l.r, data |-> l.s, line |-> r.line, col |-> r.col]

readln(r, max_size) ==
    LET l == ln_loop(r, <<>>, max_size)
    IN  [r |-> l.r, data |-> l.s, line |-> r.line, col |-> r.col]

(***************************************************************************)
(* jump_to.  A result is [r, err].                                         *)
(***************************************************************************)
\* jump_to setting the place of a reader without a backing file but leaving
\* its cursor where it is
jump_to_place(r, position, l, c) ==
    IF position < 0 THEN [r |-> r, err |-> "position is out of range"]
    ELSE IF ~r.ifs.open
    THEN IF position > Len(r.buffer)
         THEN [r |-> [r EXCEPT !.shift = position],
               err |-> "position is out of range"]
         ELSE [r |-> [r EXCEPT !.line = l, !.col = c], err |-> ""]
    ELSE LET r1 == refill_buffer([r EXCEPT !.ifs = seekg(@, position)])
         IN  [r |-> [r1 EXCEPT !.line = l, !.col = c], err |-> ""]

\* jump_to accepting only positions inside the window
jump_to_inside(r, position, l, c) ==
    IF position < 0 THEN [r |-> r, err |-> "position is out of range"]
    ELSE IF ~r.ifs.open
    THEN LET r1 == [r EXCEPT !.shift = position]
         IN  IF r1.shift >= Len(r1.buffer)
             THEN [r |-> r1, err |-> "position is out of range"]
             ELSE [r |-> [r1 EXCEPT !.line = l, !.col = c], err |-> ""]
    ELSE LET r1 == refill_buffer([r EXCEPT !.ifs = seekg(@, position)])
         IN  [r |-> [r1 EXCEPT !.line = l, !.col = c], err |-> ""]

\* shift is assigned before it is compared with the size of the window:
\* the reader a failed jump leaves behind has the new shift
jump_to(r, position, l, c) ==
    IF position < 0 THEN [r |-> r, err |-> "position is out of range"]
    ELSE IF ~r.ifs.open
    THEN LET r1 == [r EXCEPT !.shift = position]
         IN  IF r1.shift > Len(r1.buffer)
             THEN [r |-> r1, err |-> "position is out of range"]
             ELSE [r |-> [r1 EXCEPT !.line = l, !.col = c], err |-> ""]
    ELSE LET r1 == refill_buffer([r EXCEPT !.ifs = seekg(@, position)])
         IN  [r |-> [r1 EXCEPT !.line = l, !.col = c], err |-> ""]

(***************************************************************************)
(* Inputs.  Four families of byte sequences: every sequence over a        *)
(* general alphabet, every sequence over a smaller one for callers that    *)
(* mix next_token and readln, every sequence over the bytes of the         *)
(* numeric grammar, and concatenations of the pieces string literals are   *)
(* made of.                                                                *)
(***************************************************************************)
SeqsUpTo(A, n) == UNION {[1..k -> A] : k \in 0..n}

RECURSIVE Flatten(_)
Flatten(ss) == IF ss = <<>> THEN <<>> ELSE Head(ss) \o Flatten(Tail(ss))

\* a 1 . space \n ( '
TokAlphabet == {97, 49, 46, 32, 10, 40, 39}
\* 1 . space \n '
MixAlphabet == {49, 46, 32, 10, 39}
\* 0 1 . e E + -
NumAlphabet == {48, 49, 46, 101, 69, 43, 45}
\* ' " \ n \n u0041 u00e9 u00
StrFragments ==
    {<<39>>, <<34>>, <<92>>, <<110>>, <<10>>,
     <<117, 48, 48, 52, 49>>, <<117, 48, 48, 101, 57>>, <<117, 48, 48>>}

\* the malformed numbers of the tests BadIntegerToken and BadFloatingToken:
\* 0123 123. 123e 123E 123e+ 123e- 123E+ 123E- 123eE 123Ee
BadNumbers ==
    {<<48, 49, 50, 51>>, <<49, 50, 51, 46>>, <<49, 50, 51, 101>>,
     <<49, 50, 51, 69>>, <<49, 50, 51, 101, 43>>, <<49, 50, 51, 101, 45>>,
     <<49, 50, 51, 69, 43>>, <<49, 50, 51, 69, 45>>,
     <<49, 50, 51, 101, 69>>, <<49, 50, 51, 69, 101>>}
\* numbers of the tests GoodIntegerToken and GoodFloatingToken:
\* 0 73 0.0 36.6 0e123 168E+012 15e-345 0.1e123 73.84e+789 42.42E-678
GoodNumbers ==
    {<<48>>, <<55, 51>>, <<48, 46, 48>>, <<51, 54, 46, 54>>,
     <<48, 101, 49, 50, 51>>, <<49, 54, 56, 69, 43, 48, 49, 50>>,
     <<49, 53, 101, 45, 51, 52, 53>>, <<48, 46, 49, 101, 49, 50, 51>>,
     <<55, 51, 46, 56, 52, 101, 43, 55, 56, 57>>,
     <<52, 50, 46, 52, 50, 69, 45, 54, 55, 56>>}

\* the words of the test KeyWordToken:  _abc123ABC_123cbaCBA___
\* abc123ABC_123cbaCBA___  keyword  a  b1  c42  verybadvareabelename
Keywords ==
    {<<95, 97, 98, 99, 49, 50, 51, 65, 66, 67, 95, 49, 50, 51, 99, 98, 97,
       67, 66, 65, 95, 95, 95>>,
     <<97, 98, 99, 49, 50, 51, 65, 66, 67, 95, 49, 50, 51, 99, 98, 97,
       67, 66, 65, 95, 95, 95>>,
     <<107, 101, 121, 119, 111, 114, 100>>,
     <<97>>, <<98, 49>>, <<99, 52, 50>>,
     <<118, 101, 114, 121, 98, 97, 100, 118, 97, 114, 101, 97, 98, 101, 108,
       101, 110, 97, 109, 101>>}
\* words and what ends them:  z  Q  _  7  -
KwAlphabet == {122, 81, 95, 55, 45}
KwInputs == SeqsUpTo(KwAlphabet, MaxKwLen) \cup Keywords

\* every bracket and separator, two special characters, a digit, a letter:
\* ( [ {  ) ] }  , ; :  # NUL  1 a
PunctAlphabet == {40, 91, 123, 41, 93, 125, 44, 59, 58, 35, 0, 49, 97}
PunctInputs == SeqsUpTo(PunctAlphabet, MaxPunctLen)

\* the inputs of the test GoodWhiteSpaceToken: three spaces, three tabs,
\* nine spaces, three LF, three CR, and a mix of them
WhiteSpaces ==
    {<<32, 32, 32>>, <<9, 9, 9>>,
     <<32, 32, 32, 32, 32, 32, 32, 32, 32>>,
     <<10, 10, 10>>, <<13, 13, 13>>,
     <<32, 32, 9, 32, 32, 32, 32, 10, 9, 9, 9, 13, 32, 32, 32>>}

TokInputs == SeqsUpTo(TokAlphabet, MaxLen)
MixInputs == SeqsUpTo(MixAlphabet, MaxMixLen)
NumInputs == SeqsUpTo(NumAlphabet, MaxNumLen) \cup BadNumbers \cup GoodNumbers
StrInputs == {Flatten(ss) : ss \in SeqsUpTo(StrFragments, MaxFrags)}

\* sources with several tokens of different kinds, faults among them:
\* ab 1   'a',   1.<LF>a   (1)   'a   #a<LF>1   1.5 ''
ReplayInputs ==
    {<<97, 98, 32, 49>>, <<39, 97, 39, 44>>, <<49, 46, 10, 97>>,
     <<40, 49, 41>>, <<39, 97>>, <<35, 97, 10, 49>>,
     <<49, 46, 53, 32, 39, 39>>}

\* sources for the readers that are also repositioned, in memory or in a
\* file:  1  LF  '
SrcAlphabet == {49, 10, 39}
SrcInputs == SeqsUpTo(SrcAlphabet, MaxSrcLen)
\* the buffer_size values a file is opened with
Chunks == 1..MaxChunk
\* the positions handed to jump_to: before the source, inside it, its end,
\* beyond it
Positions == (-1)..(MaxSrcLen + 1)
\* the (line, col) pairs handed to jump_to
Places == {<<0, 0>>, <<3, 7>>}

(***************************************************************************)
(* State.  buffer, shift, line, col are the reader's fields.  ret is the   *)
(* outcome of the latest public call, calls counts the calls, out is the   *)
(* concatenation of the lexemes next_token has returned, raised and        *)
(* lines_read record whether a call has thrown and whether readln has      *)
(* been called, eofs lists the (line, col) of the eof tokens returned.      *)
(***************************************************************************)
VARIABLES buffer, shift, line, col, ret, calls, out, raised, lines_read, eofs

\* the other fields of the reader: the stream, the chunk size, the file
\* offset of the window.  unchecked records that peek() or get() has been
\* called while valid() was false; crashed that a write outside the window
\* has damaged the process, after which nothing is known of the reader.
VARIABLES ifs, max_buffer_size, offset, unchecked, crashed

\* the number of jump_to calls made, and whether one of them has thrown
VARIABLES jumps, jump_failed
\* the latest successful jump_to of a reader without a backing file: the
\* offset it went to, the number of next_token calls made since, and the
\* token the caller went back to (NoCall when it chose the place freely)
VARIABLE replay

vars ==
    <<buffer, shift, line, col, ret, calls, out, raised, lines_read, eofs,
      ifs, max_buffer_size, offset, unchecked, crashed, jumps, jump_failed,
      replay>>

\* the reader value the fields make up
this ==
    [buffer |-> buffer, shift |-> shift, line |-> line, col |-> col,
     ifs |-> ifs, max_buffer_size |-> max_buffer_size, offset |-> offset,
     unchecked |-> unchecked, ub |-> FALSE]

NoCall ==
    [op |-> "none", kind |-> "none", lexeme |-> <<>>, err |-> "",
     line |-> 0, col |-> 0, start |-> 0, arg |-> 0]

NoReplay == [from |-> -1, n |-> 0, token |-> NoCall]

\* a write outside the window either lands in memory the string owns and
\* does no harm, or damages the process
Outcomes(r) == IF r.ub THEN {FALSE, TRUE} ELSE {FALSE}

\* the state right after a constructor has built the reader value r
Started(r) ==
    /\ buffer = r.buffer
    /\ shift = r.shift
    /\ line = r.line
    /\ col = r.col
    /\ ifs = r.ifs
    /\ max_buffer_size = r.max_buffer_size
    /\ offset = r.offset
    /\ unchecked = r.unchecked
    /\ crashed \in Outcomes(r)
    /\ ret = NoCall
    /\ calls = 0
    /\ out = <<>>
    /\ raised = FALSE
    /\ lines_read = FALSE
    /\ eofs = <<>>
    /\ jumps = 0
    /\ jump_failed = FALSE
    /\ replay = NoReplay

Constructed(str) == Started(reader(str))

Init == \E str \in MixInputs : Constructed(str)
InitTok ==
    \E str \in TokInputs \cup KwInputs \cup PunctInputs \cup WhiteSpaces :
        Constructed(str)
InitNum == \E str \in NumInputs : Constructed(str)
InitStr == \E str \in StrInputs : Constructed(str)
\* a reader built from a string, or from the path of a file of the same bytes
InitSrc ==
    \E src \in SrcInputs :
        \/ Constructed(src)
        \/ \E buffer_size \in Chunks : Started(reader_path(src, buffer_size))
\* a reader built from a string that is replayed
InitReplay == \E str \in SrcInputs \cup ReplayInputs : Constructed(str)

\* the reader's fields after a call that left the reader value r
Becomes(r) ==
    /\ buffer' = r.buffer
    /\ shift' = r.shift
    /\ line' = r.line
    /\ col' = r.col
    /\ ifs' = r.ifs
    /\ max_buffer_size' = r.max_buffer_size
    /\ offset' = r.offset
    /\ unchecked' = r.unchecked
    /\ crashed' \in Outcomes(r)

\* what a next_token call with the outcome t leaves behind
Tokenized(t) ==
    /\ Becomes(t.r)
    /\ ret' = [op |-> "next_token", kind |-> t.kind, lexeme |-> t.lexeme,
               err |-> t.err, line |-> t.line, col |-> t.col,
               start |-> shift, arg |-> 0]
    /\ out' = IF t.err = "" THEN out \o t.lexeme ELSE out
    /\ raised' = (raised \/ t.err # "")
    /\ eofs' = IF t.kind = "eof" THEN Append(eofs, <<t.line, t.col>>)
               ELSE eofs
    /\ replay' = IF replay.from >= 0 THEN [replay EXCEPT !.n = @ + 1]
                 ELSE replay

\* token t = r.next_token(lexeme), or the exception it throws
NextToken ==
    /\ ~crashed
    /\ calls < MaxCalls
    /\ Tokenized(next_token(this))
    /\ calls' = calls + 1
    /\ UNCHANGED <<lines_read, jumps, jump_failed>>

\* what a readln(data, max_size) call with the outcome l leaves behind
LineRead(l, max_size) ==
    /\ Becomes(l.r)
    /\ ret' = [op |-> "readln", kind |-> "none", lexeme |-> l.data,
               err |-> "", line |-> l.line, col |-> l.col,
               start |-> shift, arg |-> max_size]
    /\ replay' = NoReplay

\* position = r.readln(data, max_size)
Readln ==
    /\ ~crashed
    /\ calls < MaxCalls
    /\ \E max_size \in 0..MaxSize : LineRead(readln(this, max_size), max_size)
    /\ calls' = calls + 1
    /\ lines_read' = TRUE
    /\ UNCHANGED <<out, raised, eofs, jumps, jump_failed>>

\* what a jump_to(position, l, c) call with the outcome j leaves behind;
\* token is the earlier token whose start the caller goes back to, if any
Repositioned(j, position, l, c, token) ==
    /\ Becomes(j.r)
    /\ ret' = [op |-> "jump_to", kind |-> "none", lexeme |-> <<>>,
               err |-> j.err, line |-> l, col |-> c,
               start |-> shift, arg |-> position]
    /\ raised' = (raised \/ j.err # "")
    /\ jump_failed' = (jump_failed \/ j.err # "")
    /\ replay' = IF j.err = "" /\ ~ifs.open
                 THEN [from |-> position, n |-> 0, token |-> token]
                 ELSE NoReplay

\* r.jump_to(position, l, c), or the exception it throws
JumpTo ==
    /\ ~crashed
    /\ calls < MaxCalls
    /\ jumps < MaxJumps
    /\ \E position \in Positions, place \in Places :
         Repositioned(jump_to(this, position, place[1], place[2]),
                      position, place[1], place[2], NoCall)
    /\ calls' = calls + 1
    /\ jumps' = jumps + 1
    /\ UNCHANGED <<out, lines_read, eofs>>

\* r.jump_to(t.offset, t.line, t.col) for the token t that the latest
\* next_token call returned: the caller backtracks by one token
JumpBack ==
    /\ ~crashed
    /\ calls < MaxCalls
    /\ jumps < MaxJumps
    /\ ret.op = "next_token"
    /\ ret.err = ""
    /\ Repositioned(jump_to(this, ret.start, ret.line, ret.col),
                    ret.start, ret.line, ret.col, ret)
    /\ calls' = calls + 1
    /\ jumps' = jumps + 1
    /\ UNCHANGED <<out, lines_read, eofs>>

Next == NextToken \/ Readln

\* a caller that mixes next_token and readln
Spec == Init /\ [][Next]_vars
\* a caller that only pulls tokens
NextTok == NextToken
SpecTok == InitTok /\ [][NextTok]_vars
SpecNum == InitNum /\ [][NextTok]_vars
SpecStr == InitStr /\ [][NextTok]_vars
\* a caller that also repositions the reader, on either kind of source
NextSrc == NextToken \/ Readln \/ JumpTo \/ JumpBack
SpecSrc == InitSrc /\ [][NextSrc]_vars
\* the same caller on readers built from strings only
SpecReplay == InitReplay /\ [][NextSrc]_vars

(***************************************************************************)
(* Properties.                                                             *)
(***************************************************************************)
NoQuote(s) == \A i \in 1..Len(s) : s[i] # 39 /\ s[i] # 34

\* the latest call was next_token and it returned a token
Returned == ret.op = "next_token" /\ ret.err = ""

\* C1: round trip.  Over an input without quote bytes, when no next_token
\* call has raised, the lexemes returned by the successive next_token calls
\* up to the first eof token, concatenated, are the input.
C1_RoundTrip ==
    (/\ NoQuote(buffer) /\ ~raised /\ ~lines_read
     /\ Returned /\ ret.kind = "eof" /\ Len(eofs) = 1)
    => out = buffer

\* the input  1.1(  has been read as a floating token, a bracket and eof
C1_Witness ==
    /\ buffer = <<49, 46, 49, 40>>
    /\ ~raised /\ ~lines_read
    /\ Returned /\ ret.kind = "eof" /\ Len(eofs) = 1
    /\ calls = 3
    /\ out = buffer

(***************************************************************************)
(* The string grammar of the specification, section 4.3, as a reference:   *)
(* a literal is an opening quote, then items - a plain byte, a one-byte    *)
(* escape, or \\u and four hex digits - up to the first quote byte equal to *)
(* the opening one that is not part of an escape.                          *)
(***************************************************************************)
\* what a one-byte escape stands for (section 4.3)
Unescape ==
    (34 :> 34) @@ (92 :> 92) @@ (47 :> 47) @@ (98 :> 8) @@ (102 :> 12)
    @@ (110 :> 10) @@ (114 :> 13) @@ (116 :> 9)

HexDigits == (48..57) \cup (65..70) \cup (97..102)

RECURSIVE HexNumber(_)
HexNumber(h) ==
    IF h = <<>> THEN 0
    ELSE LET d == h[Len(h)]
             v == IF d <= 57 THEN d - 48 ELSE IF d <= 70 THEN d - 55 ELSE d - 87
         IN  16 * HexNumber(SubSeq(h, 1, Len(h) - 1)) + v

\* UTF-8 of a codepoint of the basic multilingual plane
Utf8(cp) ==
    IF cp <= 127 THEN <<cp>>
    ELSE IF cp <= 2047 THEN <<192 + (cp \div 64), 128 + (cp % 64)>>
    ELSE <<224 + (cp \div 4096), 128 + ((cp \div 64) % 64), 128 + (cp % 64)>>

RECURSIVE Literal(_, _, _, _)
\* the literal of s whose next item starts at index i (1-based), opened by
\* quote q, with text decoded so far: how it ends, where, and its value
Literal(s, i, q, text) ==
    IF i > Len(s) THEN [end |-> "unterminated"]
    ELSE IF s[i] = q THEN [end |-> "closed", close |-> i, text |-> text]
    ELSE IF s[i] # 92 THEN Literal(s, i + 1, q, Append(text, s[i]))
    ELSE IF i + 1 > Len(s) THEN [end |-> "unterminated"]
    ELSE IF s[i + 1] \in DOMAIN Unescape
    THEN Literal(s, i + 2, q, Append(text, Unescape[s[i + 1]]))
    ELSE IF s[i + 1] # 117 THEN [end |-> "bad escape"]
    ELSE IF \A k \in 2..5 : i + k <= Len(s) /\ s[i + k] \in HexDigits
    THEN Literal(s, i + 6, q, text \o Utf8(HexNumber(SubSeq(s, i + 2, i + 5))))
    ELSE [end |-> "bad unicode escape"]

\* the literal that opens at byte offset p (0-based) of s
LiteralAt(s, p) == Literal(s, p + 2, s[p + 1], <<>>)

StartsWithQuote(s, p) == p < Len(s) /\ s[p + 1] \in {39, 34}

\* C2: a next_token call that returns a non-eof token advances the cursor
\* past exactly one lexeme: past the closing quote of a string literal
\* (the empty literal included), past the bytes of its lexeme otherwise.
C2_AdvancesOneLexeme ==
    (Returned /\ ret.kind # "eof")
    => IF ret.kind = "string"
       THEN /\ LiteralAt(buffer, ret.start).end = "closed"
            /\ shift = LiteralAt(buffer, ret.start).close
       ELSE /\ shift = ret.start + Len(ret.lexeme)
            /\ ret.lexeme = SubSeq(buffer, ret.start + 1, shift)

\* C3: once next_token has returned eof, every later next_token call
\* returns eof again, with an empty lexeme and the (line, col) of the first
\* eof token, and leaves buffer, shift, line and col as they were.
C3_EofIdempotent ==
    [][(eofs # <<>> /\ ret'.op = "next_token")
       => /\ ret'.kind = "eof" /\ ret'.err = "" /\ ret'.lexeme = <<>>
          /\ <<ret'.line, ret'.col>> = eofs[1]
          /\ UNCHANGED <<buffer, shift, line, col>>]_vars

\* eof has been returned three times, with a readln in between
C3_Witness ==
    /\ Len(eofs) = 3 /\ eofs[3] = eofs[1]
    /\ lines_read /\ Returned /\ ret.kind = "eof"
    /\ buffer # <<>>

(***************************************************************************)
(* The position of a byte offset, counted from the content.                *)
(***************************************************************************)
\* indices (1-based) of the newline bytes among the first p bytes of s
NewlinesBefore(s, p) == {i \in 1..p : s[i] = 10}

LineOf(s, p) == Cardinality(NewlinesBefore(s, p))

ColOf(s, p) ==
    IF NewlinesBefore(s, p) = {} THEN p
    ELSE p - (CHOOSE i \in NewlinesBefore(s, p) :
                  \A j \in NewlinesBefore(s, p) : j <= i)

\* C4: over an input without quote bytes, as long as no call has raised,
\* the (line, col) reported by next_token or readln for a read that starts
\* at a byte of the input is (newlines before that byte, bytes between the
\* latest of them - or the start of input - and that byte).
C4_PositionTracking ==
    (/\ NoQuote(buffer) /\ ~raised
     /\ ret.op \in {"next_token", "readln"}
     /\ ret.start < Len(buffer))
    => /\ ret.line = LineOf(buffer, ret.start)
       /\ ret.col = ColOf(buffer, ret.start)

\* \n space 1 : readln has read the line and the space, then next_token
\* returns the token at (1, 1)
C4_Witness ==
    /\ buffer = <<10, 32, 49>>
    /\ lines_read /\ ~raised
    /\ Returned /\ ret.kind = "integer" /\ ret.start = 2
    /\ ret.line = 1 /\ ret.col = 1
    /\ out = <<49>>

\* C5: after next_token returns a string token whose source text holds k
\* raw newline bytes, line has grown by k and, when k > 0, col is the
\* number of bytes consumed after the last of them.
C5_NewlinesInStrings ==
    (Returned /\ ret.kind = "string"
     /\ LiteralAt(buffer, ret.start).end = "closed")
    => LET close == LiteralAt(buffer, ret.start).close
           nl == {i \in (ret.start + 1)..close : buffer[i] = 10}
       IN  /\ line = ret.line + Cardinality(nl)
           /\ nl # {} => col = close - (CHOOSE i \in nl : \A j \in nl : j <= i)

(***************************************************************************)
(* The numeric grammar of the specification, section 4.3, as a reference.  *)
(***************************************************************************)
Digits == 48..57

\* the byte at index j (1-based) of s, and -1 past the end of the input
ByteAt(s, j) == IF j \in 1..Len(s) THEN s[j] ELSE -1

\* the index just past the longest run of digits that starts at index j
RunEnd(s, j) ==
    CHOOSE k \in j..(Len(s) + 1) :
        /\ ByteAt(s, k) \notin Digits
        /\ \A m \in j..(k - 1) : s[m] \in Digits

\* the index just past the integer part that starts at index i
IntEnd(s, i) == IF s[i] = 48 THEN i + 1 ELSE RunEnd(s, i)

\* the index just past the fractional part, if there is one
FracEnd(s, i) ==
    IF ByteAt(s, IntEnd(s, i)) = 46 THEN RunEnd(s, IntEnd(s, i) + 1)
    ELSE IntEnd(s, i)

\* (a) 0 immediately followed by another digit
LeadingZero(s, i) == s[i] = 48 /\ ByteAt(s, i + 1) \in Digits

\* (b) a '.' after the integer part that is not followed by a digit
DanglingPoint(s, i) ==
    /\ ByteAt(s, IntEnd(s, i)) = 46
    /\ ByteAt(s, IntEnd(s, i) + 1) \notin Digits

\* (c) e or E, then at most one sign, not followed by a digit
DanglingExponent(s, i) ==
    LET k == FracEnd(s, i)
        m == IF ByteAt(s, k + 1) \in {43, 45} THEN k + 2 ELSE k + 1
    IN  /\ ByteAt(s, k) \in {101, 69}
        /\ ByteAt(s, m) \notin Digits

\* C6: next_token raises, and returns no token, whenever the lexeme at the
\* cursor starts with a digit and has a leading zero, a '.' without a digit
\* after it, or an exponent marker (and optional sign) without a digit
\* after it - the end of input counting as "no digit".
C6_RejectsMalformedNumbers ==
    (/\ ret.op = "next_token"
     /\ ByteAt(buffer, ret.start + 1) \in Digits
     /\ \/ LeadingZero(buffer, ret.start + 1)
        \/ DanglingPoint(buffer, ret.start + 1)
        \/ DanglingExponent(buffer, ret.start + 1))
    => ret.err # "" /\ ret.kind = "none"

\* 123eE has raised at the second exponent marker
C6_Witness ==
    /\ buffer = <<49, 50, 51, 101, 69>>
    /\ calls = 1 /\ ret.op = "next_token"
    /\ DanglingExponent(buffer, 1)
    /\ ret.err # "" /\ shift = 4

AllDigits(s) == s # <<>> /\ \A i \in 1..Len(s) : s[i] \in Digits

IsIntegerPart(s) == AllDigits(s) /\ (s[1] = 48 => Len(s) = 1)

IsFraction(s) == s # <<>> /\ s[1] = 46 /\ AllDigits(Tail(s))

IsExponent(s) ==
    /\ Len(s) >= 2 /\ s[1] \in {101, 69}
    /\ \/ AllDigits(Tail(s))
       \/ s[2] \in {43, 45} /\ AllDigits(Tail(Tail(s)))

\* integer part, optional fraction, optional exponent
WellFormedNumber(s) ==
    \E a \in 1..Len(s) : \E b \in a..Len(s) :
        /\ IsIntegerPart(SubSeq(s, 1, a))
        /\ a = b \/ IsFraction(SubSeq(s, a + 1, b))
        /\ b = Len(s) \/ IsExponent(SubSeq(s, b + 1, Len(s)))

HasFractionOrExponent(s) == \E i \in 1..Len(s) : s[i] \in {46, 101, 69}

\* C7: when the whole input is one well-formed number, the first next_token
\* returns the whole input as lexeme, with kind integer iff it has neither a
\* fraction nor an exponent and floating otherwise, and the second returns
\* eof.
C7_NumberKinds ==
    WellFormedNumber(buffer)
    => /\ calls = 1 =>
            /\ Returned /\ ret.lexeme = buffer
            /\ ret.kind = IF HasFractionOrExponent(buffer)
                          THEN "floating" ELSE "integer"
       /\ calls = 2 => Returned /\ ret.kind = "eof" /\ ret.lexeme = <<>>

\* 168E+012 was returned whole as a floating token, and then eof
C7_Witness ==
    /\ buffer = <<49, 54, 56, 69, 43, 48, 49, 50>>
    /\ WellFormedNumber(buffer)
    /\ calls = 2 /\ ret.kind = "eof" /\ out = buffer

\* C8: for a literal made of valid items and closed by its opening quote,
\* next_token returns kind string and the decoded content as lexeme: every
\* escape replaced by what it stands for, every other byte verbatim, the
\* quotes left out, and the empty lexeme for the empty literal.
C8_StringDecoding ==
    (/\ ret.op = "next_token"
     /\ StartsWithQuote(buffer, ret.start)
     /\ LiteralAt(buffer, ret.start).end = "closed")
    => /\ ret.err = "" /\ ret.kind = "string"
       /\ ret.lexeme = LiteralAt(buffer, ret.start).text

\* C9: next_token raises, and returns no token, when the lexeme at the
\* cursor starts with a quote and (a) a backslash is followed by a byte
\* that is no escape, or (b) \\u is not followed by four hex digits, or (c) the
\* input ends before the closing quote.
C9_StringErrors ==
    (/\ ret.op = "next_token"
     /\ StartsWithQuote(buffer, ret.start)
     /\ LiteralAt(buffer, ret.start).end
            \in {"bad escape", "bad unicode escape", "unterminated"})
    => ret.err # "" /\ ret.kind = "none"

\* ' \\ u 0 0 '  has raised at the quote that stands where a hex digit must
C9_Witness ==
    /\ buffer = <<39, 92, 117, 48, 48, 39>>
    /\ calls = 1 /\ ret.op = "next_token"
    /\ LiteralAt(buffer, 0).end = "bad unicode escape"
    /\ ret.err # "" /\ ret.kind = "none"

(***************************************************************************)
(* Lines.                                                                  *)
(***************************************************************************)
\* the first k bytes of t are at most m bytes with no newline before the last
IsLinePrefix(t, k, m) == k <= m /\ \A i \in 1..(k - 1) : t[i] # 10

LongestLine(t, m) ==
    SubSeq(t, 1, CHOOSE k \in 0..Len(t) :
                     /\ IsLinePrefix(t, k, m)
                     /\ \A n \in 0..Len(t) : IsLinePrefix(t, n, m) => n <= k)

\* C10: readln(max_size) returns the longest prefix of the remaining input
\* of at most max_size bytes with no newline except as its last byte,
\* advances the cursor by its length and returns the (line, col) the read
\* began at; with max_size = 0 or at end of input it returns the empty text
\* and consumes nothing.
C10_Readln ==
    [][ret'.op = "readln"
       => /\ ret'.lexeme
               = LongestLine(SubSeq(buffer, shift + 1, Len(buffer)), ret'.arg)
          /\ shift' = shift + Len(ret'.lexeme)
          /\ buffer' = buffer
          /\ ret'.line = line /\ ret'.col = col
          /\ (ret'.arg = 0 \/ shift >= Len(buffer))
                => /\ ret'.lexeme = <<>>
                   /\ UNCHANGED <<buffer, shift, line, col>>]_vars

\* . 1 \n : after the token '.', readln(2) has returned  1 \n  from (0, 1)
C10_Witness ==
    /\ buffer = <<46, 49, 10>>
    /\ ret.op = "readln" /\ ret.arg = 2 /\ ret.start = 1
    /\ ret.lexeme = <<49, 10>> /\ ret.line = 0 /\ ret.col = 1
    /\ shift = 3 /\ line = 1 /\ col = 0

(***************************************************************************)
(* Repositioning and file-backed sources.                                  *)
(***************************************************************************)
\* the latest call was jump_to and it returned
Jumped == ret.op = "jump_to" /\ ret.err = ""

\* C11: jump_to raises for every negative offset; on a source without a
\* backing file it raises for a non-negative offset exactly when the offset
\* is greater than the length of the window, and an offset equal to that
\* length succeeds and leaves the reader at end of input.
C11_JumpToRange ==
    ret.op = "jump_to" =>
        /\ ret.arg < 0 => ret.err # ""
        /\ ~ifs.open /\ ret.arg >= 0 =>
               (ret.err # "" <=> ret.arg > Len(buffer))
        /\ ~ifs.open /\ ret.arg = Len(buffer) =>
               /\ ret.err = ""
               /\ shift = Len(buffer)
               /\ ~valid(this)

\* a two-byte string source has been repositioned to offset 2, its length
C11_Witness ==
    /\ Jumped
    /\ ~ifs.open
    /\ Len(buffer) = 2
    /\ ret.arg = 2
    /\ shift = 2
    /\ ~valid(this)

\* the bytes of the source: the file's, or the string's
Source == IF ifs.open THEN ifs.file ELSE buffer

\* C12: after a successful jump_to(p, l, c) the reader's line and col are l
\* and c, the next next_token or readln reports (l, c) as its start, and
\* the byte it consumes first is the byte at offset p of the source: with p
\* inside the source that byte is at the cursor and next_token does not
\* return eof.
C12_JumpToStart ==
    [][(Jumped /\ ret'.op \in {"next_token", "readln"}) =>
          /\ line = ret.line /\ col = ret.col
          /\ ret'.line = ret.line /\ ret'.col = ret.col
          /\ ret.arg < Len(Source) =>
                /\ valid(this)
                /\ peek(this) = Source[ret.arg + 1]
                /\ ret'.op = "next_token" => ret'.kind # "eof"]_vars

RECURSIVE after_tokens(_, _)
\* the reader built from the string str after n calls of next_token
after_tokens(str, n) ==
    IF n = 0 THEN reader(str) ELSE next_token(after_tokens(str, n - 1)).r

\* C13: refills are transparent.  The n-th next_token call on a reader
\* built from a file, whatever the chunk size, has the outcome (kind,
\* lexeme, line, col, or the error) of the n-th call on a reader built from
\* a string of the same bytes.
C13_RefillTransparent ==
    (ifs.open /\ ~lines_read /\ jumps = 0 /\ ret.op = "next_token") =>
        LET t == next_token(after_tokens(ifs.file, calls - 1))
        IN  /\ ret.kind = t.kind
            /\ ret.lexeme = t.lexeme
            /\ ret.line = t.line
            /\ ret.col = t.col
            /\ ret.err = t.err

\* C14: right after construction from a non-empty file the window is the
\* first min(file size, chunk size) bytes of the file and valid() is true,
\* and the first next_token does not return eof.
C14_InitialRefill ==
    (ifs.open /\ ifs.file # <<>> /\ ~crashed) =>
        /\ calls = 0 =>
              LET n == IF Len(ifs.file) < max_buffer_size
                       THEN Len(ifs.file) ELSE max_buffer_size
              IN  /\ buffer = SubSeq(ifs.file, 1, n)
                  /\ valid(this)
        /\ calls = 1 /\ ret.op = "next_token" => ret.kind # "eof"

\* C15: the first next_token or readln on a freshly constructed reader,
\* built from a non-empty file or from a non-empty string, reports line 0
\* and col 0, and no token of such a source reports a negative line or col.
C15_StartsAtOrigin ==
    Source # <<>> =>
        /\ calls = 1 /\ ret.op \in {"next_token", "readln"} =>
              ret.line = 0 /\ ret.col = 0
        /\ jumps = 0 /\ ret.op = "next_token" =>
              ret.line >= 0 /\ ret.col >= 0

(***************************************************************************)
(* Errors, keywords, preconditions, the window, progress.                  *)
(***************************************************************************)
\* the index (1-based, Len(s) + 1 for the end of the input) of the byte
\* that makes the number starting at index i malformed
NumberFault(s, i) ==
    IF LeadingZero(s, i) THEN i + 1
    ELSE IF DanglingPoint(s, i) THEN IntEnd(s, i) + 1
    ELSE LET k == FracEnd(s, i)
         IN  IF ByteAt(s, k + 1) \in {43, 45} THEN k + 2 ELSE k + 1

RECURSIVE StringFault(_, _, _)
\* the same for the literal opened by quote q whose next item starts at
\* index i: the byte after a backslash that is no escape, the first byte
\* after \\u that is no hex digit, the end of the input
StringFault(s, i, q) ==
    IF i > Len(s) THEN Len(s) + 1
    ELSE IF s[i] # 92 THEN StringFault(s, i + 1, q)
    ELSE IF i + 1 > Len(s) THEN Len(s) + 1
    ELSE IF s[i + 1] \in DOMAIN Unescape THEN StringFault(s, i + 2, q)
    ELSE IF s[i + 1] # 117 THEN i + 1
    ELSE IF \A k \in 2..5 : ByteAt(s, i + k) \in HexDigits
    THEN StringFault(s, i + 6, q)
    ELSE LET k == CHOOSE k \in 2..5 :
                      /\ ByteAt(s, i + k) \notin HexDigits
                      /\ \A m \in 2..(k - 1) : ByteAt(s, i + m) \in HexDigits
         IN  IF i + k > Len(s) THEN Len(s) + 1 ELSE i + k

\* the byte offset (0-based) at which the malformed lexeme at offset p fails
FaultAt(s, p) ==
    IF StartsWithQuote(s, p) THEN StringFault(s, p + 2, s[p + 1]) - 1
    ELSE NumberFault(s, p + 1) - 1

\* C16: no rollback on error.  When next_token raises, the cursor is at the
\* byte that violated the grammar, or at the end of the input when the
\* input ran out: the bytes before it are consumed and the next call starts
\* there.
C16_NoRollback ==
    (ret.op = "next_token" /\ ret.err # "") =>
        /\ shift = FaultAt(buffer, ret.start)
        /\ shift > ret.start
        /\ shift <= Len(buffer)

Letters == (65..90) \cup (97..122)
WordBytes == Letters \cup Digits \cup {95}

\* C17: a keyword lexeme is non-empty, starts with a letter or '_', is made
\* of letters, digits and '_' only, and is maximal: it is the bytes from the
\* start of the call to the cursor, and no such byte is at the cursor.  A
\* call that starts at a letter or '_' returns a keyword.
C17_Keywords ==
    ret.op = "next_token" =>
        /\ ret.kind = "keyword" =>
              /\ ret.lexeme # <<>>
              /\ ret.lexeme[1] \in Letters \cup {95}
              /\ \A i \in 1..Len(ret.lexeme) : ret.lexeme[i] \in WordBytes
              /\ ret.lexeme = SubSeq(buffer, ret.start + 1, shift)
              /\ ByteAt(buffer, shift + 1) \notin WordBytes
        /\ ByteAt(buffer, ret.start + 1) \in Letters \cup {95} =>
              ret.err = "" /\ ret.kind = "keyword"

\* _7 has been returned as one keyword out of the input  _7-
C17_Witness ==
    /\ buffer = <<95, 55, 45>>
    /\ Returned /\ ret.kind = "keyword"
    /\ ret.lexeme = <<95, 55>>
    /\ shift = 2

\* C18: on an in-memory source next_token and readln call peek() and
\* get() only while valid() is true.
C18_PeekGetValid == ~ifs.open => ~unchecked

\* no byte is left to obtain: a string source has only its window, a file
\* source has been read to its end
Exhausted == ~ifs.open \/ ifs.pos >= Len(ifs.file)

\* C19: the window invariant.  In every state reached through next_token,
\* readln and successful jump_to calls shift does not exceed the length of
\* the window, and it equals that length only when no more bytes can be
\* obtained.
C19_WindowInvariant ==
    (~crashed /\ ~jump_failed) =>
        /\ shift <= Len(buffer)
        /\ shift = Len(buffer) => Exhausted

\* C20: progress and termination.  Every next_token call made while
\* valid() is true moves the cursor forward by at least one byte, whether
\* it returns a token or raises, and a call made while valid() is false
\* returns eof; so a caller that keeps calling next_token on an in-memory
\* input, going on after errors, gets eof: once it has made more calls than
\* the input has bytes, eof has been returned.
C20_Progress ==
    [][(ret'.op = "next_token" /\ calls' = calls + 1) =>
          /\ valid(this) => shift' > shift
          /\ ~valid(this) => ret'.kind = "eof"
          /\ calls' > Len(buffer) => eofs' # <<>>]_vars

\* the input  1.a(  : the number has raised at a, then  a  and  (  have been
\* returned, then eof
C20_Witness ==
    /\ buffer = <<49, 46, 97, 40>>
    /\ raised
    /\ calls = 4
    /\ out = <<97, 40>>
    /\ ret.op = "next_token" /\ ret.kind = "eof"
    /\ shift = 4

(***************************************************************************)
(* Classification, whitespace, failed jumps, replay.                       *)
(***************************************************************************)
OpenBrackets == {40, 91, 123}
CloseBrackets == {41, 93, 125}
Separators == {44, 59, 58}
Quotes == {39, 34}
Blanks == {32, 9, 10, 11, 12, 13}

\* the kinds a token that starts with byte c can have (section 4.3)
KindsOf(c) ==
    IF c \in OpenBrackets THEN {"open_bracket"}
    ELSE IF c \in CloseBrackets THEN {"close_bracket"}
    ELSE IF c \in Separators THEN {"separator"}
    ELSE IF c \in Letters \cup {95} THEN {"keyword"}
    ELSE IF c \in Digits THEN {"integer", "floating"}
    ELSE IF c \in Quotes THEN {"string"}
    ELSE IF c \in Blanks THEN {"whitespace"}
    ELSE {"special_character"}

OneByteKinds ==
    {"open_bracket", "close_bracket", "separator", "special_character"}

\* C21: a token returned by a next_token call made while valid() is true
\* has the kind that the byte at the cursor stands for: the three opening
\* brackets, the three closing ones, the three separators, and
\* special_character for every byte that is no bracket, separator, letter,
\* '_', digit, quote or whitespace.  For these four kinds the lexeme is
\* that one byte and the cursor has moved by one.
C21_Classification ==
    (Returned /\ ret.start < Len(buffer)) =>
        /\ ret.kind \in KindsOf(buffer[ret.start + 1])
        /\ ret.kind \in OneByteKinds =>
              /\ ret.lexeme = <<buffer[ret.start + 1]>>
              /\ shift = ret.start + 1

\* the input  :#  has been read as a separator and a special character
C21_Witness ==
    /\ buffer = <<58, 35>>
    /\ Returned /\ ret.kind = "special_character"
    /\ ret.lexeme = <<35>>
    /\ out = <<58, 35>>
    /\ calls = 2 /\ shift = 2

\* the number of newline bytes in the text s
Newlines(s) == Cardinality({i \in 1..Len(s) : s[i] = 10})

AllBlank(s) == \A i \in 1..Len(s) : s[i] \in Blanks

\* C22: a whitespace token is the maximal run of whitespace bytes at the
\* cursor: its lexeme is the bytes from the start of the call to the new
\* cursor, all of them whitespace, no whitespace byte follows it, and line
\* has grown by the number of newlines in it.  The call before it has not
\* returned a whitespace token; over an input of whitespace only it is the
\* first call and takes the whole input, and every later call returns eof.
C22_WhitespaceRun ==
    [][(ret'.op = "next_token" /\ ret'.err = "" /\ calls' = calls + 1) =>
          /\ ret'.kind = "whitespace" =>
                /\ ret'.lexeme # <<>>
                /\ AllBlank(ret'.lexeme)
                /\ ret'.lexeme = SubSeq(buffer, shift + 1, shift')
                /\ ByteAt(buffer, shift' + 1) \notin Blanks
                /\ line' = line + Newlines(ret'.lexeme)
                /\ ~(Returned /\ ret.kind = "whitespace")
          /\ (buffer # <<>> /\ AllBlank(buffer)) =>
                IF calls = 0
                THEN ret'.kind = "whitespace" /\ ret'.lexeme = buffer
                ELSE ret'.kind = "eof"]_vars

\* the mix of spaces, tabs, LF and CR of the test has been returned as one
\* whitespace token, and line is 1
C22_Witness ==
    /\ buffer = <<32, 32, 9, 32, 32, 32, 32, 10, 9, 9, 9, 13, 32, 32, 32>>
    /\ Returned /\ ret.kind = "whitespace"
    /\ ret.lexeme = buffer
    /\ shift = Len(buffer)
    /\ line = 1
    /\ calls = 1

\* C23: a jump_to call that raises leaves shift, line, col and the window
\* as they were, so that next_token returns what it would have returned
\* without the call.
C23_FailedJumpKeepsState ==
    [][(ret'.op = "jump_to" /\ ret'.err # "" /\ calls' = calls + 1) =>
          /\ shift' = shift
          /\ line' = line
          /\ col' = col
          /\ buffer' = buffer
          /\ next_token(this').kind = next_token(this).kind
          /\ next_token(this').lexeme = next_token(this).lexeme]_vars

\* the bytes of s from offset p on
Suffix(s, p) == SubSeq(s, p + 1, Len(s))

\* C24: on a source without a backing file, whatever calls came before, the
\* n-th next_token call after a successful jump_to(p, l, c) has the kind and
\* the lexeme, or raises as, the n-th call of a fresh reader over the bytes
\* from offset p on; and the first call after a jump to the offset, line and
\* col of the token returned before returns that token again.
C24_Replay ==
    (~ifs.open /\ replay.from >= 0 /\ replay.n >= 1) =>
        LET t == next_token(after_tokens(Suffix(buffer, replay.from),
                                         replay.n - 1))
        IN  /\ ret.op = "next_token"
            /\ ret.kind = t.kind
            /\ ret.lexeme = t.lexeme
            /\ ret.err = t.err
            /\ (replay.n = 1 /\ replay.token # NoCall) => ret = replay.token

\* the caller went back to an integer that does not start the source and
\* got it again
C24_Witness ==
    /\ ~ifs.open
    /\ replay.from > 0
    /\ replay.n = 1
    /\ replay.token.kind = "integer"
    /\ ret = replay.token

====
